---- MODULE Spec2Model ----
(***************************************************************************)
(* Model of the spam-rs mail relay: the legacy send-mail request handler   *)
(* (src/main.rs), the error-to-status mapping (src/error.rs, src/main.rs)  *)
(* and the legacy address normaliser (src/legacy/email.rs).                *)
(*                                                                         *)
(* A Rust String is modelled as a sequence of characters, so that          *)
(* splitting, trimming, ASCII tests and base64 are computed.  An ASCII     *)
(* character is the one-character string; a non-ASCII character is named   *)
(* by its code point ("U+00E5" is LATIN SMALL LETTER A WITH RING ABOVE).   *)
(* Option<T> is a sequence of length 0 (None) or 1 (Some).                 *)
(***************************************************************************)
EXTENDS Integers, Sequences, FiniteSets, TLC

----------------------------------------------------------------------------
(* Bounds of the model *)

\* longest display name drawn for a name+address pair
MaxName == 2
\* longest address drawn for a name+address pair
MaxAddr == 2
\* longest bare address string / comma-separated string drawn
MaxStr == 4
\* most attachments in one request
MaxAtt == 2
\* most elements of a JSON array of addresses
MaxItems == 2

----------------------------------------------------------------------------
(* Characters and strings *)

\* the printable ASCII characters, code points 32..126 in order (the grave
\* accent, code point 96, is written by its code point)
AsciiPrintable ==
    << " ", "!", "\"", "#", "$", "%", "&", "'", "(", ")", "*", "+", ",", "-", ".", "/",
       "0", "1", "2", "3", "4", "5", "6", "7", "8", "9", ":", ";", "<", "=", ">", "?",
       "@", "A", "B", "C", "D", "E", "F", "G", "H", "I", "J", "K", "L", "M", "N", "O",
       "P", "Q", "R", "S", "T", "U", "V", "W", "X", "Y", "Z", "[", "\\", "]", "^", "_",
       "U+0060", "a", "b", "c", "d", "e", "f", "g", "h", "i", "j", "k", "l", "m", "n", "o",
       "p", "q", "r", "s", "t", "u", "v", "w", "x", "y", "z", "{", "|", "}", "~" >>

\* the standard base64 alphabet (BASE64_STANDARD)
Base64Alphabet ==
    << "A", "B", "C", "D", "E", "F", "G", "H", "I", "J", "K", "L", "M", "N", "O", "P",
       "Q", "R", "S", "T", "U", "V", "W", "X", "Y", "Z", "a", "b", "c", "d", "e", "f",
       "g", "h", "i", "j", "k", "l", "m", "n", "o", "p", "q", "r", "s", "t", "u", "v",
       "w", "x", "y", "z", "0", "1", "2", "3", "4", "5", "6", "7", "8", "9", "+", "/" >>

None == << >>
Some(x) == << x >>
IsSome(o) == Len(o) = 1
IsNone(o) == Len(o) = 0

\* Unicode scalar value of a character
CodePoint(c) ==
    CASE c = "\n" -> 10
      [] c = "\t" -> 9
      [] c = "U+00E5" -> 229
      [] c = "U+00E4" -> 228
      [] c = "U+00F6" -> 246
      [] OTHER -> 31 + (CHOOSE i \in 1..Len(AsciiPrintable) : AsciiPrintable[i] = c)

\* char::is_ascii
IsAsciiChar(c) == CodePoint(c) < 128

\* str::is_ascii
IsAscii(s) == \A i \in 1..Len(s) : IsAsciiChar(s[i])

\* char::is_whitespace on the characters of the model
IsWhitespace(c) == c \in {" ", "\n", "\t"}

\* the UTF-8 bytes of one character (one or two bytes below U+0800)
Utf8Char(c) ==
    IF CodePoint(c) < 128 THEN << CodePoint(c) >>
    ELSE << 192 + (CodePoint(c) \div 64), 128 + (CodePoint(c) % 64) >>

RECURSIVE Utf8(_)
Utf8(s) == IF s = << >> THEN << >> ELSE Utf8Char(Head(s)) \o Utf8(Tail(s))

RECURSIVE TrimStart(_)
TrimStart(s) ==
    IF s # << >> /\ IsWhitespace(Head(s)) THEN TrimStart(Tail(s)) ELSE s

RECURSIVE TrimEnd(_)
TrimEnd(s) ==
    IF s # << >> /\ IsWhitespace(s[Len(s)]) THEN TrimEnd(SubSeq(s, 1, Len(s) - 1)) ELSE s

\* str::trim
Trim(s) == TrimEnd(TrimStart(s))

\* str::trim_end_matches(c)
RECURSIVE TrimEndMatches(_, _)
TrimEndMatches(s, c) ==
    IF s # << >> /\ s[Len(s)] = c THEN TrimEndMatches(SubSeq(s, 1, Len(s) - 1), c) ELSE s

\* str::contains(c)
Contains(s, c) == \E i \in 1..Len(s) : s[i] = c

\* index of the first occurrence of c in s (s contains c)
FirstIndex(s, c) == CHOOSE i \in 1..Len(s) : s[i] = c /\ \A j \in 1..(i - 1) : s[j] # c

\* str::split(c): the segments between the occurrences of c, in order
RECURSIVE Split(_, _)
Split(s, c) ==
    IF ~Contains(s, c) THEN << s >>
    ELSE << SubSeq(s, 1, FirstIndex(s, c) - 1) >>
            \o Split(SubSeq(s, FirstIndex(s, c) + 1, Len(s)), c)

\* str::split_once(c): None, or Some of the parts before and after the first c
SplitOnce(s, c) ==
    IF ~Contains(s, c) THEN None
    ELSE Some(<< SubSeq(s, 1, FirstIndex(s, c) - 1), SubSeq(s, FirstIndex(s, c) + 1, Len(s)) >>)

\* BASE64_STANDARD.encode of a byte sequence, with padding
RECURSIVE Base64Encode(_)
Base64Encode(b) ==
    IF Len(b) = 0 THEN << >>
    ELSE IF Len(b) = 1 THEN
        << Base64Alphabet[(b[1] \div 4) + 1],
           Base64Alphabet[((b[1] % 4) * 16) + 1], "=", "=" >>
    ELSE IF Len(b) = 2 THEN
        << Base64Alphabet[(b[1] \div 4) + 1],
           Base64Alphabet[((b[1] % 4) * 16 + (b[2] \div 16)) + 1],
           Base64Alphabet[((b[2] % 16) * 4) + 1], "=" >>
    ELSE
        << Base64Alphabet[(b[1] \div 4) + 1],
           Base64Alphabet[((b[1] % 4) * 16 + (b[2] \div 16)) + 1],
           Base64Alphabet[((b[2] % 16) * 4 + (b[3] \div 64)) + 1],
           Base64Alphabet[(b[3] % 64) + 1] >>
        \o Base64Encode(SubSeq(b, 4, Len(b)))

\* all strings over the characters cs of length at most n
RECURSIVE StringsUpTo(_, _)
StringsUpTo(cs, n) ==
    IF n = 0 THEN { << >> }
    ELSE StringsUpTo(cs, n - 1)
         \cup { Append(s, c) : s \in { x \in StringsUpTo(cs, n - 1) : Len(x) = n - 1 }, c \in cs }

\* position of a character in the base64 alphabet, 0..63
Base64Index(c) == (CHOOSE i \in 1..Len(Base64Alphabet) : Base64Alphabet[i] = c) - 1

IsBase64Char(c) == \E i \in 1..Len(Base64Alphabet) : Base64Alphabet[i] = c

\* the bytes of the 6-bit values v, whose length is not 1 modulo 4
RECURSIVE Base64Bytes(_)
Base64Bytes(v) ==
    IF Len(v) = 0 THEN << >>
    ELSE IF Len(v) = 2 THEN << v[1] * 4 + (v[2] \div 16) >>
    ELSE IF Len(v) = 3 THEN
        << v[1] * 4 + (v[2] \div 16), (v[2] % 16) * 16 + (v[3] \div 4) >>
    ELSE
        << v[1] * 4 + (v[2] \div 16), (v[2] % 16) * 16 + (v[3] \div 4),
           (v[3] % 4) * 64 + v[4] >>
        \o Base64Bytes(SubSeq(v, 5, Len(v)))

\* BASE64_STANDARD.decode: None on an invalid length, symbol, padding or
\* non-zero trailing bits, else Some of the bytes
Base64Decode(s) ==
    LET data == TrimEndMatches(s, "=")
        pad == Len(s) - Len(data)
        v == [i \in 1..Len(data) |-> Base64Index(data[i])]
    IN  IF \/ Len(s) % 4 # 0
           \/ pad > 2
           \/ \E i \in 1..Len(data) : ~IsBase64Char(data[i])
           \/ (pad = 1 /\ v[Len(v)] % 4 # 0)
           \/ (pad = 2 /\ v[Len(v)] % 16 # 0)
        THEN None
        ELSE Some(Base64Bytes(v))

----------------------------------------------------------------------------
(* Errors and their HTTP responses *)

\* enum Error of src/error.rs
ErrorKinds ==
    { "EnvVarMissing", "InvalidEmailDomain", "InvalidContentType", "ApiKeyInvalid",
      "ApiKeyLookup", "MissingContent", "EmailSend", "TemplateRender", "TemplateLoad",
      "Attachment", "NotASCII", "EmailBody" }

\* enum Error of src/main.rs
MainErrorKinds ==
    { "EnvVarMissing", "InvalidEmailDomain", "ApiKeyInvalid", "ApiKeyLookup",
      "MissingContent", "EmailSend", "TemplateRender", "TemplateLoad", "Attachment",
      "EmailBody" }

\* an error value: its kind and the parts of its message
Error(kind, msg) == [kind |-> kind, msg |-> msg]

\* status of HttpResponse::from(&Error) in src/error.rs
HttpResponseFrom(kind) ==
    CASE kind = "ApiKeyInvalid" -> 401
      [] kind \in { "EmailSend", "TemplateRender", "TemplateLoad", "ApiKeyLookup",
                    "EnvVarMissing" } -> 500
      [] kind \in { "Attachment", "EmailBody", "InvalidEmailDomain", "InvalidContentType",
                    "NotASCII", "MissingContent" } -> 400

\* StatusCode with NotASCII among the server errors
StatusCode_NotAscii500(kind) ==
    CASE kind = "ApiKeyInvalid" -> 401
      [] kind \in { "EmailSend", "TemplateRender", "TemplateLoad", "ApiKeyLookup",
                    "EnvVarMissing", "NotASCII" } -> 500
      [] kind \in { "Attachment", "EmailBody", "InvalidEmailDomain", "InvalidContentType",
                    "MissingContent" } -> 400

\* ResponseError::status_code in src/error.rs
StatusCode(kind) ==
    CASE kind = "ApiKeyInvalid" -> 401
      [] kind \in { "EmailSend", "TemplateRender", "TemplateLoad", "ApiKeyLookup",
                    "EnvVarMissing" } -> 500
      [] kind \in { "Attachment", "EmailBody", "InvalidEmailDomain", "InvalidContentType",
                    "NotASCII", "MissingContent" } -> 400

\* MainHttpResponseFrom with MissingContent among the server errors
MainHttpResponseFrom_MissingContent500(kind) ==
    CASE kind = "ApiKeyInvalid" -> 401
      [] kind \in { "EmailSend", "TemplateRender", "TemplateLoad", "ApiKeyLookup",
                    "EnvVarMissing", "MissingContent" } -> 500
      [] kind \in { "Attachment", "EmailBody", "InvalidEmailDomain" } -> 400

\* status of HttpResponse::from(&Error) in src/main.rs
MainHttpResponseFrom(kind) ==
    CASE kind = "ApiKeyInvalid" -> 401
      [] kind \in { "EmailSend", "TemplateRender", "TemplateLoad", "ApiKeyLookup",
                    "EnvVarMissing" } -> 500
      [] kind \in { "Attachment", "EmailBody", "InvalidEmailDomain", "MissingContent" } -> 400

\* ResponseError::status_code in src/main.rs
MainStatusCode(kind) ==
    CASE kind = "ApiKeyInvalid" -> 401
      [] kind \in { "EmailSend", "TemplateRender", "TemplateLoad", "ApiKeyLookup",
                    "EnvVarMissing" } -> 500
      [] kind \in { "Attachment", "EmailBody", "InvalidEmailDomain", "MissingContent" } -> 400

----------------------------------------------------------------------------
(* Address normaliser, src/legacy/email.rs *)

Ok(v) == [ok |-> TRUE, val |-> v, err |-> Error("", << >>)]
Err(e) == [ok |-> FALSE, val |-> << >>, err |-> e]

\* AddressFieldLegacy::Address(s)
Address(s) == [kind |-> "Address", name |-> << >>, address |-> s]

\* AddressFieldLegacy::NameAndAddress(EmailNameLegacy { name, address })
NameAndAddress(n, a) == [kind |-> "NameAndAddress", name |-> n, address |-> a]

EncodedWordPrefix == << "=", "?", "U", "T", "F", "-", "8", "?", "B", "?" >>
EncodedWordSuffix == << "?", "=" >>

\* format_utf8 that does not trim the name
format_utf8_NoTrim(name) ==
    EncodedWordPrefix \o Base64Encode(Utf8(name)) \o EncodedWordSuffix

\* format_utf8: "=?UTF-8?B?{}?=" around the base64 of the trimmed name
format_utf8(name) ==
    EncodedWordPrefix \o Base64Encode(Utf8(Trim(name))) \o EncodedWordSuffix

\* format!("{} <{}>", name, address)
NameAddrFormat(name, address) == name \o << " ", "<" >> \o address \o << ">" >>

\* TryFromAddress returning an ASCII address trimmed
TryFromAddress_Trimmed(addr) ==
    IF IsAscii(addr) THEN Ok(Trim(addr))
    ELSE IF Contains(addr, "<") THEN
        LET parts == SplitOnce(addr, "<")[1] IN
        IF IsAscii(parts[2])
        THEN Ok(NameAddrFormat(format_utf8(parts[1]), TrimEndMatches(parts[2], ">")))
        ELSE Err(Error("InvalidAddress", << "address is not ASCII" >>))
    ELSE Err(Error("InvalidAddress", << "is not ASCII and is not in Name <addr> format" >>))

\* TryFromAddress without the ASCII test of the part after '<'
TryFromAddress_NoAddrCheck(addr) ==
    IF IsAscii(addr) THEN Ok(addr)
    ELSE IF Contains(addr, "<") THEN
        LET parts == SplitOnce(addr, "<")[1] IN
        Ok(NameAddrFormat(format_utf8(parts[1]), TrimEndMatches(parts[2], ">")))
    ELSE Err(Error("InvalidAddress", << "is not ASCII and is not in Name <addr> format" >>))

\* TryFrom<&AddressFieldLegacy> for String, arm AddressFieldLegacy::Address(addr)
TryFromAddress(addr) ==
    IF IsAscii(addr) THEN Ok(addr)
    ELSE IF Contains(addr, "<") THEN
        LET parts == SplitOnce(addr, "<")[1] IN
        IF IsAscii(parts[2])
        THEN Ok(NameAddrFormat(format_utf8(parts[1]), TrimEndMatches(parts[2], ">")))
        ELSE Err(Error("InvalidAddress", << "address is not ASCII" >>))
    ELSE Err(Error("InvalidAddress", << "is not ASCII and is not in Name <addr> format" >>))

\* TryFrom<&AddressFieldLegacy> for String, arm
\* AddressFieldLegacy::NameAndAddress(name_addr)
TryFromNameAndAddress(name_addr) ==
    LET name == IF IsAscii(name_addr.name) THEN name_addr.name
                ELSE format_utf8(name_addr.name)
    IN  IF ~IsAscii(name_addr.address)
        THEN Err(Error("NotASCII", << "address field" >>))
        ELSE Ok(NameAddrFormat(name, name_addr.address))

\* impl TryFrom<&AddressFieldLegacy> for String
TryFromField(value) ==
    IF value.kind = "Address" THEN TryFromAddress(value.address)
    ELSE TryFromNameAndAddress(value)

\* a serde_json::Value: a string, an object (its "name" and "address" members
\* when they are strings), an array, or any other value
JString(s) == [type |-> "string", str |-> s, name |-> None, address |-> None, items |-> << >>]
JObject(n, a) == [type |-> "object", str |-> << >>, name |-> n, address |-> a, items |-> << >>]
JArray(vs) == [type |-> "array", str |-> << >>, name |-> None, address |-> None, items |-> vs]
JOther == [type |-> "other", str |-> << >>, name |-> None, address |-> None, items |-> << >>]

\* impl Deserialize for AddressFieldLegacy
DeserializeField(value) ==
    IF value.type = "string" THEN Ok(Address(value.str))
    ELSE IF value.type = "object" THEN
        IF IsNone(value.name) THEN Err(Error("de", << "missing field", "name" >>))
        ELSE IF IsNone(value.address) THEN Err(Error("de", << "missing field", "address" >>))
        ELSE Ok(NameAndAddress(value.name[1], value.address[1]))
    ELSE Err(Error("de", << "expected string or object" >>))

\* AddressFieldsLegacy::AddressField(f)
AddressField(f) == [kind |-> "AddressField", items |-> << f >>]

\* AddressFieldsLegacy::AddressList(fs)
AddressList(fs) == [kind |-> "AddressList", items |-> fs]

\* the first error of a sequence of results, or Ok of all their values
\* (Iterator::collect into Result<Vec<_>, _>)
Collect(rs) ==
    IF \E i \in 1..Len(rs) : ~rs[i].ok
    THEN Err(rs[CHOOSE i \in 1..Len(rs) : ~rs[i].ok /\ \A j \in 1..(i - 1) : rs[j].ok].err)
    ELSE Ok([i \in 1..Len(rs) |-> rs[i].val])

\* DeserializeString dropping the empty segments of a comma-separated string
DeserializeString_SkipEmpty(s) ==
    IF Contains(s, ",")
    THEN LET segs == SelectSeq(Split(s, ","), LAMBDA x : Trim(x) # << >>)
         IN  AddressList([i \in 1..Len(segs) |-> Address(Trim(segs[i]))])
    ELSE AddressField(Address(s))

\* impl Deserialize for AddressFieldsLegacy, arm Value::String(s)
DeserializeString(s) ==
    IF Contains(s, ",")
    THEN LET segs == Split(s, ",")
         IN  AddressList([i \in 1..Len(segs) |-> Address(Trim(segs[i]))])
    ELSE AddressField(Address(s))

\* impl Deserialize for AddressFieldsLegacy
DeserializeFields(value) ==
    IF value.type = "string" THEN Ok(DeserializeString(value.str))
    ELSE IF value.type = "object" THEN
        LET addr == DeserializeField(value)
        IN  IF addr.ok THEN Ok(AddressField(addr.val)) ELSE Err(addr.err)
    ELSE IF value.type = "array" THEN
        LET addresses == Collect([i \in 1..Len(value.items) |-> DeserializeField(value.items[i])])
        IN  IF addresses.ok THEN Ok(AddressList(addresses.val)) ELSE Err(addresses.err)
    ELSE Err(Error("de", << "expected string, object, or array" >>))

\* TryFromFields leaving out the elements that do not convert
TryFromFields_DropFailing(value) ==
    LET rs == [i \in 1..Len(value.items) |-> TryFromField(value.items[i])]
        oks == SelectSeq(rs, LAMBDA r : r.ok)
    IN  Ok([i \in 1..Len(oks) |-> oks[i].val])

\* impl TryFrom<&AddressFieldsLegacy> for Vec<String>
TryFromFields(value) ==
    IF value.kind = "AddressField" THEN
        LET r == TryFromField(value.items[1])
        IN  IF r.ok THEN Ok(<< r.val >>) ELSE Err(r.err)
    ELSE Collect([i \in 1..Len(value.items) |-> TryFromField(value.items[i])])

----------------------------------------------------------------------------
(* The legacy send-mail handler, src/main.rs *)

VARIABLES
    env,        \* which of HIVE_URL and HIVE_SECRET the process environment sets
    pc,         \* position of the request in send_mail_legacy / send_email_legacy
    payload,    \* the JSON body posted to /sendmail
    body,       \* the parsed EmailRequestLegacy, or Unparseable
    res,        \* the text of the authorization response
    body_text,  \* the body handed to the provider, once resolved
    renderErr,  \* whether render_template returned an error in this request
    authCalls,  \* authorization requests sent in this request
    sendCalls,  \* provider send_email calls made in this request
    resp,       \* what the provider's send returned
    response,   \* the HTTP response of the request
    dest,       \* the Destination of the outbound message, once built
    \* state of the address normaliser (src/legacy/email.rs)
    field,      \* the last AddressFieldLegacy converted
    norm,       \* its conversion to a String
    bare,       \* the same name and address written as a bare "Name <address>" string
    bareNorm,   \* the conversion of bare
    json,       \* the last JSON value deserialized as AddressFieldsLegacy
    fields,     \* the result of that deserialization
    flat,       \* the conversion of fields to a Vec<String>
    \* state of the error conversions (src/error.rs, src/main.rs)
    errorReply  \* the last error converted: its error_response and its status_code

handlerVars ==
    << env, pc, payload, body, res, body_text, renderErr, authCalls, sendCalls, resp, response,
       dest >>
addrVars == << field, norm, bare, bareNorm, json, fields, flat, errorReply >>
vars == << env, pc, payload, body, res, body_text, renderErr, authCalls, sendCalls, resp,
           response, dest,
           field, norm, bare, bareNorm, json, fields, flat, errorReply >>

\* EmailTemplateTypeLegacy
Templates == { "default", "metaspexet", "none" }

\* VerifiedDomains::try_from accepts exactly these
VerifiedDomains ==
    { << "m","e","t","a","s","p","e","x","e","t",".","s","e" >>,
      << "d","a","t","a","s","e","k","t","i","o","n","e","n",".","s","e" >>,
      << "d","d","a","g","e","n",".","s","e" >> }

\* sender addresses of the requests drawn
FromAddresses ==
    { << "s","e","n","d","e","r","@","d","a","t","a","s","e","k","t","i","o","n","e","n",".","s","e" >>,
      << "a","@","m","e","t","a","s","p","e","x","e","t",".","s","e" >>,
      << "a","@","e","x","a","m","p","l","e",".","c","o","m" >>,
      << "n","o","d","o","m","a","i","n" >>,
      << "a","@","b","@","d","d","a","g","e","n",".","s","e" >>,
      << "a","@","d","d","a","g","e","n",".","s","e","@","x",".","s","e" >>,
      << "a","@","D","d","a","g","e","n",".","s","e" >> }

\* values of the html and content fields drawn
HtmlValues == { None, Some(<< "<","p",">","h","i","<","/","p",">" >>) }
ContentValues == { None, Some(<< "#"," ","h","i" >>) }

\* attachments drawn: an encoding tag and a buffer
AttachmentLegacy(encoding, buffer) ==
    [originalname |-> "f", mimetype |-> "text/plain", buffer |-> buffer, encoding |-> encoding]

AttachmentSamples ==
    { AttachmentLegacy("base64", << "a","G","k","=" >>),
      AttachmentLegacy("base64", << "a","G","k" >>),
      AttachmentLegacy("BASE64", << "a","G","k","=" >>),
      AttachmentLegacy("utf-8", << "h","i" >>),
      AttachmentLegacy("hex", << "a","G","k","=" >>) }

RECURSIVE SeqsUpTo(_, _)
SeqsUpTo(S, n) ==
    IF n = 0 THEN { << >> }
    ELSE SeqsUpTo(S, n - 1)
         \cup { Append(s, x) : s \in { y \in SeqsUpTo(S, n - 1) : Len(y) = n - 1 }, x \in S }

AttachmentValues == { None } \cup { Some(atts) : atts \in SeqsUpTo(AttachmentSamples, MaxAtt) }

\* the recipient of the requests drawn: r@x.se
Recipient == << "r","@","x",".","s","e" >>

\* a request body that serde_json does not parse as EmailRequestLegacy
Unparseable ==
    [parsed |-> FALSE, template |-> "default", from |-> << >>, html |-> None,
     content |-> None, attachments |-> None, to |-> << >>, cc |-> None, bcc |-> None]

\* struct EmailRequestLegacy (the fields the handler branches on), sent to
\* one recipient, without cc and bcc
EmailRequestLegacy(template, from, html, content, attachments) ==
    [parsed |-> TRUE, template |-> template, from |-> from, html |-> html,
     content |-> content, attachments |-> attachments,
     to |-> << Recipient >>, cc |-> None, bcc |-> None]

Requests ==
    { EmailRequestLegacy(t, f, h, c, a) :
        t \in Templates, f \in FromAddresses, h \in HtmlValues, c \in ContentValues,
        a \in AttachmentValues }

\* a JSON object of "attachments[]"; encoding is None when the object has
\* no "encoding" member
JsonAttachment(encoding, buffer) ==
    [originalname |-> "f", mimetype |-> "text/plain", buffer |-> buffer, encoding |-> encoding]

\* a JSON object posted to /sendmail; a member that the object does not have
\* is None
JsonBody(template, from, html, content, attachments, to, cc, bcc) ==
    [wellformed |-> TRUE, template |-> template, from |-> from, html |-> html,
     content |-> content, attachments |-> attachments, to |-> to, cc |-> cc, bcc |-> bcc]

\* a body that is not a JSON object
Malformed ==
    [wellformed |-> FALSE, template |-> "default", from |-> << >>, html |-> None,
     content |-> None, attachments |-> None, to |-> None, cc |-> None, bcc |-> None]

\* the derived Deserialize of AttachmentLegacy: every field is required
DeserializeAttachment(value) ==
    IF IsNone(value.encoding) THEN Err(Error("serde", << "missing field", "encoding" >>))
    ELSE Ok(AttachmentLegacy(value.encoding[1], value.buffer))

\* serde_json::from_str::<EmailRequestLegacy>: "to" is required, "cc", "bcc"
\* and "attachments[]" are optional
FromStr(value) ==
    IF ~value.wellformed THEN Err(Error("serde", << "expected value" >>))
    ELSE IF IsNone(value.to) THEN Err(Error("serde", << "missing field", "to" >>))
    ELSE LET atts == IF IsNone(value.attachments) THEN Ok(<< >>)
                     ELSE Collect([i \in 1..Len(value.attachments[1]) |->
                                     DeserializeAttachment(value.attachments[1][i])])
         IN  IF ~atts.ok THEN Err(atts.err)
             ELSE Ok([EmailRequestLegacy(value.template, value.from, value.html, value.content,
                                         IF IsNone(value.attachments) THEN None
                                         ELSE Some(atts.val))
                        EXCEPT !.to = value.to[1], !.cc = value.cc, !.bcc = value.bcc])

\* the JSON object with every member of the request mail
ToJson(mail) ==
    JsonBody(mail.template, mail.from, mail.html, mail.content,
             IF IsNone(mail.attachments) THEN None
             ELSE Some([i \in 1..Len(mail.attachments[1]) |->
                          JsonAttachment(Some(mail.attachments[1][i].encoding),
                                         mail.attachments[1][i].buffer)]),
             Some(mail.to), mail.cc, mail.bcc)

\* a sender of a verified domain: sender@datasektionen.se
VerifiedSender ==
    << "s","e","n","d","e","r","@","d","a","t","a","s","e","k","t","i","o","n","e","n",".","s","e" >>

\* attachments with and without the "encoding" member
JsonAttachmentSamples ==
    { JsonAttachment(None, << "a","G","k","=" >>),
      JsonAttachment(Some("base64"), << "a","G","k","=" >>) }

\* bodies whose attachments may lack the "encoding" member
EncodingPayloads ==
    { JsonBody("none", VerifiedSender, None, Some(<< "#"," ","h","i" >>), Some(atts),
               Some(<< Recipient >>), None, None) :
        atts \in SeqsUpTo(JsonAttachmentSamples, MaxAtt) \ { << >> } }

\* struct EmailNameLegacy
EmailNameLegacy(name, address) == [name |-> name, address |-> address]

\* the values of "to", "cc" and "bcc" drawn: absent, empty, one address
ToValues == { None, Some(<< >>), Some(<< Recipient >>) }
CcValues == { None, Some(<< >>), Some(<< EmailNameLegacy("C", << "c","@","x",".","s","e" >>) >>) }
BccValues == { None, Some(<< >>), Some(<< << "b","@","x",".","s","e" >> >>) }

\* bodies with and without "to", "cc" and "bcc"
DestinationPayloads ==
    { JsonBody("none", VerifiedSender, None, Some(<< "#"," ","h","i" >>), None, to, cc, bcc) :
        to \in ToValues, cc \in CcValues, bcc \in BccValues }

\* the bodies posted
Payloads ==
    { ToJson(r) : r \in Requests } \cup { Malformed } \cup EncodingPayloads
    \cup DestinationPayloads

\* texts the authorization service may answer with
AuthTexts ==
    { << "t","r","u","e" >>, << "f","a","l","s","e" >>, << "t","r","u","e","\n" >>,
      << " ","f","a","l","s","e" >>, << "T","r","u","e" >>, << "1" >>, << >> }

\* message identifiers the provider may answer with (resp.message_id())
MessageIds == { None, Some(<< "i","d","1" >>) }

\* ParseBool reading every text that is not "true" as false
ParseBool_Lenient(s) == Ok(s = << "t","r","u","e" >>)

\* str::parse::<bool>
ParseBool(s) ==
    IF s = << "t","r","u","e" >> THEN Ok(TRUE)
    ELSE IF s = << "f","a","l","s","e" >> THEN Ok(FALSE)
    ELSE Err(Error("ParseBoolError", << >>))

\* markdown::to_html(s) when markdown, else the string s itself
Html(markdown, s) == [markdown |-> markdown, text |-> s]

\* the body text: the output of template `template` on ContentData
\* { is_html, content }, or (template None) the content itself
BodyText(template, is_html, content) ==
    [template |-> template, is_html |-> is_html, content |-> content]

NoBody == BodyText(None, FALSE, Html(FALSE, << >>))

NoResponse == [status |-> 0, body |-> << >>, err |-> Error("", << >>)]

\* the response actix builds from Err(e): ResponseError::error_response
ErrorResponse(e) == [status |-> MainHttpResponseFrom(e.kind), body |-> << >>, err |-> e]

\* HttpResponse::Ok().body(format!("{}", message_id))
OkResponse(message_id) == [status |-> 200, body |-> message_id, err |-> Error("", << >>)]

\* the normaliser state records the last conversion only: no single field
\* converted
NoField ==
    /\ field = Address(<< >>)
    /\ norm = Ok(<< >>)
    /\ bare = Address(<< >>)
    /\ bareNorm = Ok(<< >>)

\* no collection deserialized
NoCollection ==
    /\ json = JString(<< >>)
    /\ fields = Ok(AddressField(Address(<< >>)))
    /\ flat = None

\* no error converted
NoErrorReply == [enum |-> "", kind |-> "", status |-> 0, code |-> 0]

AddrIdle == NoField /\ NoCollection /\ errorReply = NoErrorReply

\* no Destination built
NoDestination == [to_addresses |-> None, cc_addresses |-> None, bcc_addresses |-> None]

HandlerIdle ==
    /\ pc = "idle"
    /\ payload = Malformed
    /\ body = Unparseable
    /\ dest = NoDestination
    /\ res = << >>
    /\ body_text = NoBody
    /\ renderErr = FALSE
    /\ authCalls = 0
    /\ sendCalls = 0
    /\ resp = Ok(None)
    /\ response = NoResponse

Init ==
    /\ env \in [HIVE_URL : BOOLEAN, HIVE_SECRET : BOOLEAN]
    /\ HandlerIdle
    /\ AddrIdle

\* the request ends with Err(e)
Fail(e) ==
    /\ pc' = "failed"
    /\ response' = ErrorResponse(e)

\* send_mail_legacy on the body b, up to the first await: parse the body,
\* read HIVE_URL and HIVE_SECRET, send the authorization request
ReceiveBody(json_body) ==
    /\ payload' = json_body
    /\ body' = (IF FromStr(json_body).ok THEN FromStr(json_body).val ELSE Unparseable)
    /\ IF ~FromStr(json_body).ok THEN
           Fail(Error("EmailBody", << "Failed to parse email request body" >>))
           /\ UNCHANGED authCalls
       ELSE IF ~env.HIVE_URL THEN
           Fail(Error("EnvVarMissing", << "HIVE_URL missing" >>))
           /\ UNCHANGED authCalls
       ELSE IF ~env.HIVE_SECRET THEN
           Fail(Error("EnvVarMissing", << "HIVE_SECRET" >>))
           /\ UNCHANGED authCalls
       ELSE
           /\ pc' = "auth_send"
           /\ authCalls' = authCalls + 1
           /\ UNCHANGED response
    /\ UNCHANGED << env, dest, res, body_text, renderErr, sendCalls, resp >>
    /\ UNCHANGED addrVars

\* a request arrives
Receive ==
    /\ pc = "idle"
    /\ \E json_body \in Payloads : ReceiveBody(json_body)

\* .send().await of the authorization request returns
AuthSendReturns(ok) ==
    /\ pc = "auth_send"
    /\ IF ok THEN pc' = "auth_text" /\ UNCHANGED response
       ELSE Fail(Error("ApiKeyLookup", << "send" >>))
    /\ UNCHANGED << env, payload, dest, body, res, body_text, renderErr, authCalls, sendCalls, resp >>
    /\ UNCHANGED addrVars

\* .text().await of the authorization response returns
AuthTextReturns(r) ==
    /\ pc = "auth_text"
    /\ IF r.ok THEN pc' = "auth_check" /\ res' = r.val /\ UNCHANGED response
       ELSE Fail(Error("ApiKeyLookup", << "text" >>)) /\ UNCHANGED res
    /\ UNCHANGED << env, payload, dest, body, body_text, renderErr, authCalls, sendCalls, resp >>
    /\ UNCHANGED addrVars

\* AuthorizeResult without the test of is_auth
AuthorizeResult_NoAuthCheck(text, mail) ==
    LET is_auth == ParseBool(Trim(text)) IN
    IF ~is_auth.ok THEN Err(Error("ApiKeyLookup", << "Key parse failed" >>))
    ELSE IF IsNone(mail.html) /\ IsNone(mail.content) THEN Err(Error("MissingContent", << >>))
    ELSE Ok(TRUE)

\* AuthorizeResult without the test that html or content is present
AuthorizeResult_NoContentCheck(text, mail) ==
    LET is_auth == ParseBool(Trim(text)) IN
    IF ~is_auth.ok THEN Err(Error("ApiKeyLookup", << "Key parse failed" >>))
    ELSE IF ~is_auth.val THEN Err(Error("ApiKeyInvalid", << >>))
    ELSE Ok(TRUE)

\* send_mail_legacy between the authorization response and the call of
\* send_email_legacy: Err of the failure, or Ok
AuthorizeResult(text, mail) ==
    LET is_auth == ParseBool(Trim(text)) IN
    IF ~is_auth.ok THEN Err(Error("ApiKeyLookup", << "Key parse failed" >>))
    ELSE IF ~is_auth.val THEN Err(Error("ApiKeyInvalid", << >>))
    ELSE IF IsNone(mail.html) /\ IsNone(mail.content) THEN Err(Error("MissingContent", << >>))
    ELSE Ok(TRUE)

\* send_mail_legacy after the authorization response: parse the boolean,
\* check it, check that html or content is present, call send_email_legacy
Authorize ==
    /\ pc = "auth_check"
    /\ LET r == AuthorizeResult(res, body) IN
       IF ~r.ok THEN Fail(r.err)
       ELSE pc' = "domain" /\ UNCHANGED response
    /\ UNCHANGED << env, payload, dest, body, res, body_text, renderErr, authCalls, sendCalls, resp >>
    /\ UNCHANGED addrVars

\* mail.from.address.split('@').nth(1)
SenderDomain(address) ==
    LET parts == Split(address, "@")
    IN  IF Len(parts) >= 2 THEN Some(parts[2]) ELSE None

\* VerifiedDomains::try_from whose fallback arm accepts the value
VerifiedDomainsTryFrom_AcceptAny(value) == Ok(value)

\* impl TryFrom<String> for VerifiedDomains
VerifiedDomainsTryFrom(value) ==
    IF value \in VerifiedDomains THEN Ok(value) ELSE Err(Error("InvalidEmailDomain", << value >>))

\* send_email_legacy: the sender's domain must be a verified domain
DomainGuardResult(address) ==
    LET domain == SenderDomain(address) IN
    IF IsNone(domain) THEN Err(Error("InvalidEmailDomain", << address >>))
    ELSE IF ~VerifiedDomainsTryFrom(domain[1]).ok
         THEN Err(Error("InvalidEmailDomain", << domain[1] >>))
    ELSE Ok(domain[1])

\* send_email_legacy from its start to the domain check
DomainGuard ==
    /\ pc = "domain"
    /\ LET r == DomainGuardResult(body.from) IN
       IF ~r.ok THEN Fail(r.err)
       ELSE pc' = "content" /\ UNCHANGED response
    /\ UNCHANGED << env, payload, dest, body, res, body_text, renderErr, authCalls, sendCalls, resp >>
    /\ UNCHANGED addrVars

\* the content chosen by send_email_legacy: html, else content, else ""
ContentOf(mail) ==
    IF IsSome(mail.html) THEN mail.html[1]
    ELSE IF IsSome(mail.content) THEN mail.content[1]
    ELSE << >>

\* Client::render_template: Ok of the rendered template, or (rendered = FALSE)
\* the RenderError of handlebars
render_template(template, content, is_html, rendered) ==
    IF rendered
    THEN Ok(BodyText(Some(template), is_html, Html(~is_html, content)))
    ELSE Err(Error("TemplateRender", << template >>))

\* ResolveBody whose fallback converts plain content from markdown
ResolveBody_MarkdownFallback(mail, rendered) ==
    LET content == ContentOf(mail)
        is_html == IsSome(mail.html)
    IN  IF mail.template # "none" THEN
            LET r == render_template(mail.template, content, is_html, rendered)
            IN  IF r.ok THEN r.val ELSE BodyText(None, is_html, Html(~is_html, content))
        ELSE IF ~is_html THEN BodyText(None, is_html, Html(TRUE, content))
        ELSE BodyText(None, is_html, Html(FALSE, content))

\* send_email_legacy: body_text
ResolveBody(mail, rendered) ==
    LET content == ContentOf(mail)
        is_html == IsSome(mail.html)
    IN  IF mail.template # "none" THEN
            LET r == render_template(mail.template, content, is_html, rendered)
            IN  IF r.ok THEN r.val ELSE BodyText(None, is_html, Html(FALSE, content))
        ELSE IF ~is_html THEN BodyText(None, is_html, Html(TRUE, content))
        ELSE BodyText(None, is_html, Html(FALSE, content))

\* send_email_legacy: the Destination of the message
Destination(mail) ==
    [to_addresses |-> Some(mail.to),
     cc_addresses |-> IF IsNone(mail.cc) THEN None
                      ELSE Some([i \in 1..Len(mail.cc[1]) |-> mail.cc[1][i].address]),
     bcc_addresses |-> mail.bcc]

\* send_email_legacy: build the destination, resolve the content and render
\* the template
ResolveContent(rendered) ==
    /\ pc = "content"
    /\ body.template = "none" => rendered
    /\ dest' = Destination(body)
    /\ body_text' = ResolveBody(body, rendered)
    /\ renderErr' = (body.template # "none" /\ ~rendered)
    /\ pc' = "attachments"
    /\ UNCHANGED << env, payload, body, res, authCalls, sendCalls, resp, response >>
    /\ UNCHANGED addrVars

\* the conversion of one attachment in send_email_legacy
DecodeAttachment(att) ==
    IF att.encoding # "base64"
    THEN Err(Error("Attachment", << "Unsupported attachment encoding", att.encoding >>))
    ELSE LET data == Base64Decode(att.buffer)
         IN  IF IsNone(data)
             THEN Err(Error("Attachment", << "Failed to decode attachment", att.originalname >>))
             ELSE Ok(data[1])

\* DecodeAttachments keeping the attachments that decode and dropping the rest
DecodeAttachments_BestEffort(attachments) ==
    IF IsNone(attachments) THEN Ok(None)
    ELSE LET rs == [i \in 1..Len(attachments[1]) |-> DecodeAttachment(attachments[1][i])]
             oks == SelectSeq(rs, LAMBDA r : r.ok)
         IN  Ok(Some([i \in 1..Len(oks) |-> oks[i].val]))

\* mail.attachments.map(...).transpose()
DecodeAttachments(attachments) ==
    IF IsNone(attachments) THEN Ok(None)
    ELSE LET r == Collect([i \in 1..Len(attachments[1]) |-> DecodeAttachment(attachments[1][i])])
         IN  IF r.ok THEN Ok(Some(r.val)) ELSE Err(r.err)

\* send_email_legacy: decode the attachments, then call the provider
BuildAndSend ==
    /\ pc = "attachments"
    /\ LET attachments == DecodeAttachments(body.attachments) IN
       IF ~attachments.ok THEN Fail(attachments.err) /\ UNCHANGED sendCalls
       ELSE /\ pc' = "sending"
            /\ sendCalls' = sendCalls + 1
            /\ UNCHANGED response
    /\ UNCHANGED << env, payload, dest, body, res, body_text, renderErr, authCalls, resp >>
    /\ UNCHANGED addrVars

\* the provider's send().await returns: an error, or a response with an
\* optional message identifier
ProviderReturns(r) ==
    /\ pc = "sending"
    /\ resp' = r
    /\ IF r.ok
       THEN /\ pc' = "done"
            /\ response' = OkResponse(IF IsSome(r.val) THEN r.val[1] ELSE << >>)
       ELSE Fail(Error("EmailSend", << "Email failed to send" >>))
    /\ UNCHANGED << env, payload, dest, body, res, body_text, renderErr, authCalls, sendCalls >>
    /\ UNCHANGED addrVars

\* the response is written and the handler is ready for the next request
Finish ==
    /\ pc \in { "done", "failed" }
    /\ pc' = "idle"
    /\ payload' = Malformed
    /\ body' = Unparseable
    /\ dest' = NoDestination
    /\ res' = << >>
    /\ body_text' = NoBody
    /\ renderErr' = FALSE
    /\ authCalls' = 0
    /\ sendCalls' = 0
    /\ resp' = Ok(None)
    /\ response' = NoResponse
    /\ UNCHANGED env
    /\ UNCHANGED addrVars

Next ==
    \/ Receive
    \/ \E ok \in BOOLEAN : AuthSendReturns(ok)
    \/ \E r \in { Ok(t) : t \in AuthTexts } \cup { Err(Error("reqwest", << >>)) } : AuthTextReturns(r)
    \/ Authorize
    \/ DomainGuard
    \/ \E rendered \in BOOLEAN : ResolveContent(rendered)
    \/ BuildAndSend
    \/ \E r \in { Ok(m) : m \in MessageIds } \cup { Err(Error("sesv2", << >>)) } : ProviderReturns(r)
    \/ Finish

Spec == Init /\ [][Next]_vars

----------------------------------------------------------------------------
(* Conversions of the address normaliser applied to drawn inputs *)

\* characters the drawn names, addresses and strings are made of
Chars == { "a", "U+00E5", " ", "<", ">", "," }

\* "åäö" and "sender@datasektionen.se" of tests::valid_utf8_address
NameAAO == << "U+00E5", "U+00E4", "U+00F6" >>
SenderAddress ==
    << "s","e","n","d","e","r","@","d","a","t","a","s","e","k","t","i","o","n","e","n",".","s","e" >>

\* "a@x.se, Name <b@x.se>"
TwoAddresses ==
    << "a","@","x",".","s","e",","," ","N","a","m","e"," ","<","b","@","x",".","s","e",">" >>

Names == StringsUpTo(Chars, MaxName) \cup { NameAAO }
Addresses == StringsUpTo(Chars, MaxAddr) \cup { SenderAddress }
Strings ==
    StringsUpTo(Chars, MaxStr)
    \cup { NameAddrFormat(NameAAO, SenderAddress), TwoAddresses, SenderAddress }

\* elements of the JSON arrays drawn
JsonElements ==
    { JString(<< "a" >>), JString(<< "U+00E5" >>),
      JObject(Some(<< "U+00E5" >>), Some(<< "a" >>)), JObject(None, Some(<< "a" >>)), JOther }

JsonValues ==
    { JString(s) : s \in Strings }
    \cup { JObject(n, a) : n \in { None, Some(<< "U+00E5" >>), Some(<< "a" >>) },
                           a \in { None, Some(<< "a" >>), Some(<< "U+00E5" >>) } }
    \cup { JArray(vs) : vs \in SeqsUpTo(JsonElements, MaxItems) }
    \cup { JOther }

\* String::try_from(&AddressFieldLegacy::Address(s))
ConvertField ==
    /\ AddrIdle
    /\ \E s \in Strings :
         /\ field' = Address(s)
         /\ norm' = TryFromField(Address(s))
    /\ bare' = Address(<< >>)
    /\ bareNorm' = Ok(<< >>)
    /\ json' = JString(<< >>)
    /\ fields' = Ok(AddressField(Address(<< >>)))
    /\ flat' = None
    /\ UNCHANGED errorReply
    /\ UNCHANGED handlerVars

\* String::try_from of a name and an address given as a pair and given as
\* the bare string "name <address>" (tests::valid_utf8_address and
\* tests::valid_utf8_fancy_address)
ConvertNameAndAddress ==
    /\ AddrIdle
    /\ \E n \in Names, a \in Addresses :
         /\ field' = NameAndAddress(n, a)
         /\ norm' = TryFromField(NameAndAddress(n, a))
         /\ bare' = Address(NameAddrFormat(n, a))
         /\ bareNorm' = TryFromField(Address(NameAddrFormat(n, a)))
    /\ json' = JString(<< >>)
    /\ fields' = Ok(AddressField(Address(<< >>)))
    /\ flat' = None
    /\ UNCHANGED errorReply
    /\ UNCHANGED handlerVars

\* serde deserializes a JSON value as AddressFieldsLegacy
Deserialize ==
    /\ AddrIdle
    /\ \E v \in JsonValues :
         /\ json' = v
         /\ fields' = DeserializeFields(v)
    /\ flat' = None
    /\ field' = Address(<< >>)
    /\ norm' = Ok(<< >>)
    /\ bare' = Address(<< >>)
    /\ bareNorm' = Ok(<< >>)
    /\ UNCHANGED errorReply
    /\ UNCHANGED handlerVars

\* Vec::<String>::try_from(&AddressFieldsLegacy)
Flatten ==
    /\ NoField
    /\ errorReply = NoErrorReply
    /\ fields.ok
    /\ IsNone(flat)
    /\ flat' = Some(TryFromFields(fields.val))
    /\ UNCHANGED << field, norm, bare, bareNorm, json, fields, errorReply >>
    /\ UNCHANGED handlerVars

\* the results are dropped
Clear ==
    /\ ~AddrIdle
    /\ field' = Address(<< >>)
    /\ norm' = Ok(<< >>)
    /\ bare' = Address(<< >>)
    /\ bareNorm' = Ok(<< >>)
    /\ json' = JString(<< >>)
    /\ fields' = Ok(AddressField(Address(<< >>)))
    /\ flat' = None
    /\ errorReply' = NoErrorReply
    /\ UNCHANGED handlerVars

\* the values of the two Error enums, by the file that declares them
ErrorValues ==
    { << "error.rs", k >> : k \in ErrorKinds } \cup { << "main.rs", k >> : k \in MainErrorKinds }

\* actix-web answers a request that ended with Err(e): e.error_response()
\* builds the response and e.status_code() gives the status of the error
RespondError ==
    /\ AddrIdle
    /\ \E e \in ErrorValues :
         errorReply' =
             [enum |-> e[1], kind |-> e[2],
              status |-> IF e[1] = "error.rs" THEN HttpResponseFrom(e[2])
                         ELSE MainHttpResponseFrom(e[2]),
              code |-> IF e[1] = "error.rs" THEN StatusCode(e[2]) ELSE MainStatusCode(e[2])]
    /\ UNCHANGED << field, norm, bare, bareNorm, json, fields, flat >>
    /\ UNCHANGED handlerVars

NextAddr ==
    \/ ConvertField
    \/ ConvertNameAndAddress
    \/ Deserialize
    \/ Flatten
    \/ RespondError
    \/ Clear

InitAddr == Init /\ env = [HIVE_URL |-> TRUE, HIVE_SECRET |-> TRUE]

SpecAddr == InitAddr /\ [][NextAddr]_vars

----------------------------------------------------------------------------
(* Properties of the handler, checked under Spec *)

TextTrue == << "t","r","u","e" >>
TextFalse == << "f","a","l","s","e" >>

\* authorization responses that are the boolean false / true once trimmed
FalseTexts == { TextFalse, << " " >> \o TextFalse }
TrueTexts == { TextTrue, TextTrue \o << "\n" >> }

\* the positions of a request before send_email_legacy is called
BeforeSendEmail == { "idle", "auth_send", "auth_text", "auth_check" }

\* HIVE_URL and HIVE_SECRET are set
Configured == env.HIVE_URL /\ env.HIVE_SECRET

\* the request has neither content nor html
NoContent == body.parsed /\ IsNone(body.html) /\ IsNone(body.content)

\* senders whose domain is not a verified domain: a@example.com, a@Ddagen.se
UnverifiedSenders ==
    { << "a","@","e","x","a","m","p","l","e",".","c","o","m" >>,
      << "a","@","D","d","a","g","e","n",".","s","e" >> }

UnverifiedSender == body.parsed /\ body.from \in UnverifiedSenders

\* C1: a request whose authorization check returned the boolean false ends
\* in ApiKeyInvalid with status 401, and the provider's send is never called
\* in that request.
C1_AuthFalseUnauthorized ==
    (pc \notin { "idle", "auth_send", "auth_text" } /\ res \in FalseTexts) =>
        /\ pc \in { "auth_check", "failed" }
        /\ sendCalls = 0
        /\ pc = "failed" =>
            /\ response.err.kind = "ApiKeyInvalid"
            /\ response.status = 401

C1_Witness ==
    /\ pc = "failed"
    /\ res = << " " >> \o TextFalse
    /\ response.status = 401
    /\ authCalls = 1

\* C2 as stated: a request with neither content nor html always fails with
\* MissingContent and status 400, and no provider send is made for it,
\* whatever its other fields are (here in a configured environment).
C2_Original ==
    (Configured /\ NoContent) =>
        /\ sendCalls = 0
        /\ pc # "done"
        /\ pc = "failed" =>
            /\ response.err.kind = "MissingContent"
            /\ response.status = 400

\* C2 amended: a request with neither content nor html never reaches the
\* provider send and never succeeds; it fails with MissingContent (400)
\* exactly when the authorization check returned true, and otherwise with
\* the failure of the earlier step (EnvVarMissing, ApiKeyLookup or
\* ApiKeyInvalid), the content check coming after the authorization.
C2_NoContentNeverSent ==
    NoContent =>
        /\ sendCalls = 0
        /\ pc \in BeforeSendEmail \cup { "failed" }
        /\ pc = "failed" =>
            /\ response.err.kind \in
                 { "EnvVarMissing", "ApiKeyLookup", "ApiKeyInvalid", "MissingContent" }
            /\ response.err.kind = "MissingContent" <=> (authCalls = 1 /\ res \in TrueTexts)
            /\ response.err.kind = "MissingContent" => response.status = 400

C2_Witness ==
    /\ NoContent
    /\ pc = "failed"
    /\ response.err.kind = "MissingContent"
    /\ response.status = 400
    /\ body.from \in UnverifiedSenders

C4_AuthBeforeSend ==
    /\ (sendCalls > 0 \/ pc \in { "domain", "content", "attachments", "sending", "done" }) =>
           (authCalls = 1 /\ res \in TrueTexts)
    /\ (pc = "failed" /\ authCalls = 1 /\ res \notin FalseTexts \cup TrueTexts) =>
           /\ response.err.kind = "ApiKeyLookup"
           /\ response.status = 500
           /\ sendCalls = 0

C4_Witness ==
    /\ pc = "failed"
    /\ authCalls = 1
    /\ res = << "1" >>
    /\ response.err.kind = "ApiKeyLookup"

\* C5: when the template (default or metaspexet) fails to render, the
\* request goes on with the content as supplied, not rendered and not
\* converted, as the body; it is never failed with TemplateRender, and only
\* an attachment or provider failure can still fail it.
C5_RenderFailureFallsBack ==
    /\ response.err.kind # "TemplateRender"
    /\ renderErr =>
        /\ body.template \in { "default", "metaspexet" }
        /\ pc \in { "attachments", "sending", "done", "failed" }
        /\ body_text = BodyText(None, IsSome(body.html), Html(FALSE, ContentOf(body)))
        /\ pc = "failed" => response.err.kind \in { "Attachment", "EmailSend" }
        /\ pc \in { "sending", "done" } => sendCalls = 1

C5_Witness ==
    /\ renderErr
    /\ IsNone(body.html)
    /\ pc = "done"
    /\ sendCalls = 1
    /\ response.status = 200

\* the status the specification gives each error kind
SpecStatus(kind) ==
    CASE kind \in { "InvalidContentType", "MissingContent", "NotASCII", "Attachment",
                    "InvalidEmailDomain", "EmailBody" } -> 400
      [] kind = "ApiKeyInvalid" -> 401
      [] kind \in { "ApiKeyLookup", "TemplateLoad", "TemplateRender", "EmailSend",
                    "EnvVarMissing" } -> 500

\* C6: every failed request is answered with the status the specification
\* gives its error kind, both error enums map every kind to that status, and
\* a successful send is answered 200 with the provider's message identifier.
C6_StatusOfEveryKind ==
    /\ pc = "failed" => response.status = SpecStatus(response.err.kind)
    /\ pc = "done" =>
        /\ response.status = 200
        /\ resp.ok
        /\ response.body = (IF IsSome(resp.val) THEN resp.val[1] ELSE << >>)
    /\ \A kind \in MainErrorKinds : MainHttpResponseFrom(kind) = SpecStatus(kind)
    /\ \A kind \in ErrorKinds : HttpResponseFrom(kind) = SpecStatus(kind)

C6_Witness ==
    /\ pc = "done"
    /\ response.status = 200
    /\ response.body = << "i","d","1" >>

----------------------------------------------------------------------------
(* Properties of the address normaliser, checked under SpecAddr *)

NonAsciiChars == { "U+00E5", "U+00E4", "U+00F6" }

HasNonAscii(s) == \E i \in 1..Len(s) : s[i] \in NonAsciiChars

\* "=?UTF-8?B?<base64 of the trimmed name's bytes>?= <address>"
EncodedNameAndAddress(n, a) ==
    << "=","?","U","T","F","-","8","?","B","?" >> \o Base64Encode(Utf8(Trim(n)))
        \o << "?","="," ","<" >> \o a \o << ">" >>

\* "=?UTF-8?B?w6XDpMO2?= <sender@datasektionen.se>"
EncodedSender ==
    << "=","?","U","T","F","-","8","?","B","?","w","6","X","D","p","M","O","2","?","=",
       " ","<","s","e","n","d","e","r","@","d","a","t","a","s","e","k","t","i","o","n",
       "e","n",".","s","e",">" >>

\* a name and an address were converted in both shapes, the name is not
\* ASCII and the address is
NonAsciiNamePair ==
    /\ field.kind = "NameAndAddress"
    /\ HasNonAscii(field.name)
    /\ ~HasNonAscii(field.address)

\* C7 as stated: for every non-ASCII name and ASCII address, the pair and the
\* bare string "name <address>" both normalise to the encoded word of the
\* trimmed name followed by " <address>".
C7_Original ==
    NonAsciiNamePair =>
        /\ norm = Ok(EncodedNameAndAddress(field.name, field.address))
        /\ bareNorm = norm

\* C7 amended: for every non-ASCII name and ASCII address the pair
\* normalises to the encoded word of the trimmed name followed by
\* " <address>"; the bare string "name <address>" normalises to the same
\* string when the name contains no '<' and the address does not end in '>'
\* (the bare string is split at its first '<' and loses every trailing '>').
\* The name "åäö" with sender@datasektionen.se gives
\* "=?UTF-8?B?w6XDpMO2?= <sender@datasektionen.se>" in both shapes.
C7_EncodedName ==
    /\ NonAsciiNamePair =>
        /\ norm = Ok(EncodedNameAndAddress(field.name, field.address))
        /\ (/\ ~Contains(field.name, "<")
            /\ (field.address = << >> \/ field.address[Len(field.address)] # ">"))
           => bareNorm = norm
    /\ (field = NameAndAddress(NameAAO, SenderAddress)) =>
        (norm = Ok(EncodedSender) /\ bareNorm = Ok(EncodedSender))
    /\ (field = Address(NameAAO \o << " ", "<" >> \o SenderAddress \o << ">" >>)) =>
        norm = Ok(EncodedSender)

C7_Witness ==
    /\ field = NameAndAddress(NameAAO, SenderAddress)
    /\ norm = Ok(EncodedSender)
    /\ bare.address = NameAAO \o << " ", "<" >> \o SenderAddress \o << ">" >>
    /\ bareNorm = Ok(EncodedSender)

\* C8: an ASCII bare string converts to itself, also in "Name <address>" form.
C8_AsciiIdentity ==
    /\ (field.kind = "Address" /\ ~HasNonAscii(field.address)) => norm = Ok(field.address)
    /\ ~HasNonAscii(bare.address) => bareNorm = Ok(bare.address)

C8_Witness ==
    /\ field = Address(<< " ", "a", "<", ">" >>)
    /\ norm = Ok(<< " ", "a", "<", ">" >>)

\* number of comma-separated segments of s
Segments(s) == 1 + Cardinality({ i \in 1..Len(s) : s[i] = "," })

\* the i-th comma-separated segment of s, trimmed, as a bare-address field
SegmentField(s, i) == Address(Trim(Split(s, ",")[i]))

\* C9 as stated: a string with N comma-separated segments is parsed into N
\* bare-address fields and flattens to exactly N normalised addresses.
C9_Original ==
    (json.type = "string" /\ Contains(json.str, ",") /\ IsSome(flat)) =>
        /\ flat[1].ok
        /\ Len(flat[1].val) = Segments(json.str)

\* C9 amended: a string with N > 1 comma-separated segments is parsed into
\* the list of its N trimmed segments as bare-address fields, and a string
\* without a comma into a single field holding the string; when every
\* segment normalises, flattening returns exactly the N normalised
\* addresses in the input order, and otherwise it fails.
C9_SplitAndFlatten ==
    json.type = "string" =>
        LET s == json.str
            n == Segments(s)
        IN  /\ fields.ok
            /\ IF n > 1
               THEN fields.val = AddressList([i \in 1..n |-> SegmentField(s, i)])
               ELSE fields.val = AddressField(Address(s))
            /\ IsSome(flat) =>
                 /\ flat[1].ok <=> \A i \in 1..Len(fields.val.items) :
                                       TryFromField(fields.val.items[i]).ok
                 /\ flat[1].ok =>
                      /\ Len(flat[1].val) = n
                      /\ \A i \in 1..n :
                           flat[1].val[i] = TryFromField(fields.val.items[i]).val

C9_Witness ==
    /\ json = JString(TwoAddresses)
    /\ IsSome(flat)
    /\ flat[1] = Ok(<< << "a","@","x",".","s","e" >>,
                       << "N","a","m","e"," ","<","b","@","x",".","s","e",">" >> >>)

\* a bare string that is not ASCII fails to convert when it has no '<' and
\* when the part after its first '<' is not ASCII
BareFails(f, r) ==
    (f.kind = "Address" /\ HasNonAscii(f.address)) =>
        /\ ~Contains(f.address, "<") => ~r.ok
        /\ (/\ Contains(f.address, "<")
            /\ HasNonAscii(SubSeq(f.address, FirstIndex(f.address, "<") + 1, Len(f.address))))
           => ~r.ok

\* C10: a conversion fails or returns ASCII characters only; it fails when
\* the address of a pair is not ASCII, when the part after '<' of a bare
\* string is not ASCII, and when a non-ASCII bare string has no '<'.
C10_AsciiOrFailure ==
    /\ norm.ok => ~HasNonAscii(norm.val)
    /\ bareNorm.ok => ~HasNonAscii(bareNorm.val)
    /\ (field.kind = "NameAndAddress" /\ HasNonAscii(field.address)) => ~norm.ok
    /\ BareFails(field, norm)
    /\ BareFails(bare, bareNorm)

C10_Witness ==
    /\ field.kind = "Address"
    /\ Contains(field.address, "<")
    /\ HasNonAscii(SubSeq(field.address, FirstIndex(field.address, "<") + 1, Len(field.address)))
    /\ ~norm.ok

----------------------------------------------------------------------------
(* Properties of the attachments, checked under Spec *)

\* the attachments of the request, none when the field is absent
AttachmentsOf(mail) == IF IsSome(mail.attachments) THEN mail.attachments[1] ELSE << >>

\* the request holds an attachment whose encoding tag is "hex"
HasUnknownTag ==
    body.parsed /\ \E i \in 1..Len(AttachmentsOf(body)) : AttachmentsOf(body)[i].encoding = "hex"

\* the request passed the authorization, the content check and the domain
\* check: its body text has been resolved
ReachedAttachments == body_text # NoBody

\* the buffers drawn that are standard base64: "aGk="
DecodableBuffers == { << "a","G","k","=" >> }

\* the attachment is converted without error
Converts(att) == att.encoding = "base64" /\ att.buffer \in DecodableBuffers

\* the message of the error of the attachment att
AttachmentMessage(att) ==
    IF att.encoding # "base64"
    THEN << "Unsupported attachment encoding", att.encoding >>
    ELSE << "Failed to decode attachment", att.originalname >>

\* the first attachment of the request that is not converted
FirstFailing(mail) ==
    AttachmentsOf(mail)[CHOOSE i \in 1..Len(AttachmentsOf(mail)) :
                          /\ ~Converts(AttachmentsOf(mail)[i])
                          /\ \A j \in 1..(i - 1) : Converts(AttachmentsOf(mail)[j])]

\* C11 as stated: a request with an attachment of unrecognized encoding tag
\* is always rejected with an Attachment failure, status 400, that names the
\* tag, whatever the other attachments are, and the provider is never called
\* (here for a request that passed the earlier steps).
C11_Original ==
    (HasUnknownTag /\ ReachedAttachments) =>
        /\ sendCalls = 0
        /\ pc # "done"
        /\ pc = "failed" =>
            /\ response.err.kind = "Attachment"
            /\ response.status = 400
            /\ response.err.msg = << "Unsupported attachment encoding", "hex" >>

\* C11 amended: a request with an attachment of unrecognized encoding tag
\* never reaches the provider send and never succeeds; once it passed the
\* authorization, the content check and the domain check it is rejected
\* with an Attachment failure, status 400, which is the failure of the first
\* attachment of the list that is not converted: it names that attachment's
\* tag, or its file name when its tag is base64 and its buffer does not
\* decode.
C11_UnknownTagRejected ==
    HasUnknownTag =>
        /\ sendCalls = 0
        /\ pc \notin { "sending", "done" }
        /\ (pc = "failed" /\ ReachedAttachments) =>
            /\ response.err.kind = "Attachment"
            /\ response.status = 400
            /\ response.err.msg = AttachmentMessage(FirstFailing(body))
        /\ (pc = "failed" /\ ~ReachedAttachments) =>
            response.err.kind \in
                { "EnvVarMissing", "ApiKeyLookup", "ApiKeyInvalid", "MissingContent",
                  "InvalidEmailDomain" }

C11_Witness ==
    /\ HasUnknownTag
    /\ Len(AttachmentsOf(body)) = 2
    /\ Converts(AttachmentsOf(body)[1])
    /\ pc = "failed"
    /\ response.status = 400
    /\ response.err = Error("Attachment", << "Unsupported attachment encoding", "hex" >>)
    /\ sendCalls = 0

\* the case variants of the two recognized encoding tags
Base64Family == { "base64", "BASE64", "Base64" }
Utf8Family == { "utf-8", "UTF-8", "Utf-8" }

\* the attachment object of the posted body is one that the claim accepts:
\* no encoding member or a base64 variant, with a buffer that is standard
\* base64, or a utf-8 variant
Recognized(att) ==
    \/ IsNone(att.encoding) /\ att.buffer \in DecodableBuffers
    \/ IsSome(att.encoding) /\ att.encoding[1] \in Base64Family /\ att.buffer \in DecodableBuffers
    \/ IsSome(att.encoding) /\ att.encoding[1] \in Utf8Family

\* the posted body is a JSON object with recipients whose attachments are all
\* ones that the claim accepts
RecognizedPayload ==
    /\ payload.wellformed
    /\ IsSome(payload.to)
    /\ IsSome(payload.attachments)
    /\ \A i \in 1..Len(payload.attachments[1]) : Recognized(payload.attachments[1][i])

\* C12: the encoding tag is matched case-insensitively: every case variant
\* of base64 is decoded with standard base64, every case variant of utf-8
\* passes the buffer through, an attachment without encoding field is treated
\* as base64; so a request whose attachments are all of these kinds is never
\* rejected for its body or for an attachment.
C12_TagsCaseInsensitive ==
    RecognizedPayload =>
        ~(pc = "failed" /\ response.err.kind \in { "EmailBody", "Attachment" })

----------------------------------------------------------------------------
(* Properties of the domain check, checked under Spec *)

\* the positions of "@" in the address
AtPositions(address) == { i \in 1..Len(address) : address[i] = "@" }

\* the substring after the last "@" of the address, None without "@"
AfterLastAt(address) ==
    IF AtPositions(address) = { } THEN None
    ELSE LET last == CHOOSE i \in AtPositions(address) : \A j \in AtPositions(address) : j <= i
         IN  Some(SubSeq(address, last + 1, Len(address)))

\* the sender that the claim accepts
AllowlistedSender(address) ==
    IsSome(AfterLastAt(address)) /\ AfterLastAt(address)[1] \in VerifiedDomains

\* C13: the domain check accepts a sender address if and only if the
\* substring after its last "@" is exactly one of metaspexet.se,
\* datasektionen.se, ddagen.se; an address without "@" and one with another
\* domain both fail with InvalidEmailDomain.
C13_LastAtDomain ==
    body.parsed =>
        /\ pc \in { "content", "attachments", "sending", "done" } => AllowlistedSender(body.from)
        /\ (pc = "failed" /\ response.err.kind = "InvalidEmailDomain") =>
               ~AllowlistedSender(body.from)

----------------------------------------------------------------------------
(* Properties of the flattening, checked under SpecAddr *)

\* the JSON value deserialized is the empty array
EmptyArray == json.type = "array" /\ json.items = << >>

\* C14 as stated: flattening a parsed collection returns a failure or a
\* non-empty sequence of addresses, never an empty sequence.
C14_Original ==
    (IsSome(flat) /\ flat[1].ok) => flat[1].val # << >>

\* C14 amended: flattening a parsed collection returns a failure or one
\* address for every element of the collection, in order; the sequence is
\* empty exactly for the empty array, and is non-empty for every string
\* (empty comma segments included) and every object.
C14_EmptyOnlyForEmptyArray ==
    (IsSome(flat) /\ flat[1].ok) =>
        /\ Len(flat[1].val) = Len(fields.val.items)
        /\ flat[1].val = << >> <=> EmptyArray
        /\ json.type = "string" => Len(flat[1].val) = Segments(json.str)
        /\ json.type = "object" => Len(flat[1].val) = 1
        /\ json.type = "array" => Len(flat[1].val) = Len(json.items)

C14_Witness ==
    /\ EmptyArray
    /\ fields = Ok(AddressList(<< >>))
    /\ flat = Some(Ok(<< >>))

----------------------------------------------------------------------------
(* Properties of the destinations, checked under Spec *)

\* the posted body is a JSON object without attachments
PlainPayload == payload.wellformed /\ IsNone(payload.attachments)

\* no address, as the provider sees it
NoAddresses == { None, Some(<< >>) }

\* C15: each of to, cc and bcc is optional: a request in which any of them
\* is absent is still accepted, does not fail for that reason, and has no
\* destinations of that kind in the outbound message.
C15_DestinationsOptional ==
    PlainPayload =>
        /\ pc = "failed" => response.err.kind # "EmailBody"
        /\ pc \in { "sending", "done" } =>
            /\ IsNone(payload.to) => dest.to_addresses \in NoAddresses
            /\ IsNone(payload.cc) => dest.cc_addresses \in NoAddresses
            /\ IsNone(payload.bcc) => dest.bcc_addresses \in NoAddresses

----------------------------------------------------------------------------
(* Properties of the order of the checks, checked under Spec *)

\* C16: the checks run in the order authorization, domain check, address
\* normalisation, content, attachments, provider send, and the failure
\* reported is that of the earliest failing step in this order: an
\* authorized request whose sender domain is not allowlisted fails with
\* InvalidEmailDomain, also when it has no content; a failure is terminal,
\* no later step is executed.
C16_EarliestFailingStep ==
    /\ (pc = "failed" /\ res \in TrueTexts /\ UnverifiedSender) =>
           response.err.kind = "InvalidEmailDomain"
    /\ (pc = "failed" /\ response.err.kind # "EmailSend") => sendCalls = 0
    /\ (pc = "failed" /\ response.err.kind \in { "EmailBody", "EnvVarMissing" }) => authCalls = 0

----------------------------------------------------------------------------
(* Properties of the failures of the normaliser, checked under SpecAddr *)

\* the elements of the parsed collection that do not convert
FailingItems == { i \in 1..Len(fields.val.items) : ~TryFromField(fields.val.items[i]).ok }

\* C17: flattening is all-or-nothing: when an element does not convert, the
\* flattening fails with the failure of the first such element in input
\* order, and no list is returned; every failure of a conversion, of a bare
\* string as of a name and address pair, has the error kind NotASCII.
C17_AllOrNothingNotAscii ==
    /\ ~norm.ok => norm.err.kind = "NotASCII"
    /\ ~bareNorm.ok => bareNorm.err.kind = "NotASCII"
    /\ IsSome(flat) =>
        /\ flat[1].ok <=> FailingItems = { }
        /\ ~flat[1].ok =>
            /\ flat[1].val = << >>
            /\ flat[1].err.kind = "NotASCII"
            /\ \E i \in FailingItems :
                /\ \A j \in FailingItems : i <= j
                /\ flat[1].err = TryFromField(fields.val.items[i]).err

----------------------------------------------------------------------------
(* Properties of the error conversions, checked under SpecAddr *)

\* C18: for every error kind the status of the response built by
\* error_response equals the status returned by status_code for the same
\* error, and both are defined for every kind of the enum: each is one of
\* 400, 401 and 500.
C18_ResponseStatusIsStatusCode ==
    errorReply # NoErrorReply =>
        /\ errorReply.status = errorReply.code
        /\ errorReply.status \in { 400, 401, 500 }
        /\ errorReply.enum = "error.rs" => errorReply.kind \in ErrorKinds
        /\ errorReply.enum = "main.rs" => errorReply.kind \in MainErrorKinds

C18_Witness ==
    errorReply = [enum |-> "error.rs", kind |-> "NotASCII", status |-> 400, code |-> 400]

====
